---- MODULE Spec2Model ----
(***************************************************************************)
(* Write-ahead log manager of src/wal/core.rs: WALEntry, WALManager        *)
(* (append, check_and_mark, append_log, checkpoint) and WALBuilder         *)
(* (load_data, build), over a directory of segment files wal<n>.log.       *)
(***************************************************************************)
EXTENDS Integers, Sequences, FiniteSets, TLC

(* ---------- bounds of the model ---------- *)

\* segment files wal1.log .. wal<MaxSeq>.log can exist
MaxSeq == 3
\* write failures explored in one run
MaxFaults == 1

(* ---------- WALEntry (core.rs 7-32) ---------- *)

EntryTypes == <<"Insert", "Set", "Delete", "Checkpoint", "TransactionBegin", "TransactionCommit">>

EntryTypeSize == 1
F64Size == 8
U64Size == 8

NoData == [some |-> FALSE, bytes |-> <<>>]
SomeData(b) == [some |-> TRUE, bytes |-> b]

WALEntry(t, d, ts, tx) == [entry_type |-> t, data |-> d, timestamp |-> ts, transaction_id |-> tx]

\* WALEntry::size
size(e) == LET data_size == IF e.data.some THEN Len(e.data.bytes) ELSE 0
           IN  EntryTypeSize + F64Size + U64Size + data_size

\* the clock readings get_current_secs can return
Times == {0}

\* the entries callers submit
InputEntries == { WALEntry("Insert", SomeData(<<10>>), 0, 1) }

\* the thresholds set_page_size is called with
PageSizes == {17, 18}

(* ---------- the encoding of a segment (bitcode::encode / decode) ---------- *)

TypeTag(t) == (CHOOSE i \in 1..Len(EntryTypes) : EntryTypes[i] = t) - 1

EncodeData(d) == IF d.some THEN <<1, Len(d.bytes)>> \o d.bytes ELSE <<0>>

EncodeEntry(e) == <<TypeTag(e.entry_type)>> \o EncodeData(e.data) \o <<e.timestamp, e.transaction_id>>

RECURSIVE EncodeEntries(_)
EncodeEntries(buf) == IF buf = <<>> THEN <<>>
                      ELSE EncodeEntry(Head(buf)) \o EncodeEntries(Tail(buf))

\* bitcode::encode(&self.buffered): the length, then the entries
Encode(buf) == <<Len(buf)>> \o EncodeEntries(buf)

DecodeError == [ok |-> FALSE, entries |-> <<>>]

\* one entry parsed from the head of bytes: [ok, entry, rest]
DecodeEntry(bytes) ==
    LET bad == [ok |-> FALSE, entry |-> WALEntry("Insert", NoData, 0, 0), rest |-> <<>>]
    IN  IF Len(bytes) < 2 \/ bytes[1] \notin 0..(Len(EntryTypes) - 1) THEN bad
        ELSE LET t == EntryTypes[bytes[1] + 1]
             IN  IF bytes[2] = 0
                 THEN IF Len(bytes) < 4 THEN bad
                      ELSE [ok |-> TRUE, entry |-> WALEntry(t, NoData, bytes[3], bytes[4]),
                            rest |-> SubSeq(bytes, 5, Len(bytes))]
                 ELSE IF bytes[2] # 1 \/ Len(bytes) < 3 THEN bad
                 ELSE LET n == bytes[3]
                      IN  IF n < 0 \/ Len(bytes) < 5 + n THEN bad
                          ELSE [ok |-> TRUE,
                                entry |-> WALEntry(t, SomeData(SubSeq(bytes, 4, 3 + n)),
                                                   bytes[4 + n], bytes[5 + n]),
                                rest |-> SubSeq(bytes, 6 + n, Len(bytes))]

RECURSIVE DecodeEntries(_, _, _)
DecodeEntries(n, bytes, acc) ==
    IF n = 0 THEN (IF bytes = <<>> THEN [ok |-> TRUE, entries |-> acc] ELSE DecodeError)
    ELSE LET r == DecodeEntry(bytes)
         IN  IF r.ok THEN DecodeEntries(n - 1, r.rest, Append(acc, r.entry)) ELSE DecodeError

\* bitcode::decode::<Vec<WALEntry>>: malformed or truncated bytes are an error
Decode(bytes) == IF bytes = <<>> \/ bytes[1] < 0 THEN DecodeError
                 ELSE DecodeEntries(bytes[1], Tail(bytes), <<>>)

(* ---------- the directory ---------- *)

\* the content of a path that names no file
NoFile == <<-1>>

Segments == 1..MaxSeq

\* std::fs::read followed by bitcode::decode
ReadSegment(dir, n) == IF n \notin DOMAIN dir \/ dir[n] = NoFile THEN DecodeError ELSE Decode(dir[n])

\* the .log files read_dir lists
LogFiles(dir) == {n \in DOMAIN dir : dir[n] # NoFile}

\* fs::write(path, bytes) and the ways it can end: written in full, refused
\* before the file is opened, or failed after the file was truncated
WriteOutcomes == {"ok", "denied", "truncated"}

FsWrite(dir, n, bytes, w) ==
    CASE w = "ok"        -> [dir EXCEPT ![n] = bytes]
      [] w = "denied"    -> dir
      [] w = "truncated" -> [dir EXCEPT ![n] = <<>>]

(* ---------- WALManager (core.rs 34-97) ---------- *)

WALManager(seq, ps, buf) == [sequence |-> seq, page_size |-> ps, buffered |-> buf]

\* the outcome of an operation: the manager and the directory it leaves, and Ok / Err
Outcome(m, d, ok) == [m |-> m, dir |-> d, ok |-> ok]

RECURSIVE BufferedSize(_)
BufferedSize(buf) == IF buf = <<>> THEN 0 ELSE size(Head(buf)) + BufferedSize(Tail(buf))

\* format!("wal{}.log", self.sequence): the file is named by the sequence
SegmentPath(m) == m.sequence

\* append, had it encoded the buffer before pushing the entry
append_stale(m, d, entry, w) ==
    LET pushed == [m EXCEPT !.buffered = Append(m.buffered, entry)]
    IN  Outcome(pushed, FsWrite(d, SegmentPath(m), Encode(m.buffered), w), w = "ok")

\* append, had it kept only the new entry in the buffer
append_replace(m, d, entry, w) ==
    LET pushed == [m EXCEPT !.buffered = <<entry>>]
    IN  Outcome(pushed, FsWrite(d, SegmentPath(pushed), Encode(pushed.buffered), w), w = "ok")

\* append, had it written the entry without keeping it in the buffer
append_forget(m, d, entry, w) ==
    Outcome(m, FsWrite(d, SegmentPath(m), Encode(Append(m.buffered, entry)), w), w = "ok")

\* WALManager::append: push, then rewrite the whole segment file
append(m, d, entry, w) ==
    LET pushed == [m EXCEPT !.buffered = Append(m.buffered, entry)]
        path   == SegmentPath(pushed)
        bytes  == Encode(pushed.buffered)
    IN  Outcome(pushed, FsWrite(d, path, bytes, w), w = "ok")

\* the entry checkpoint() synthesizes
CheckpointEntry(ts) == WALEntry("Checkpoint", NoData, ts, 0)

\* the rotation, had it forgotten to advance the sequence
RotateKeepSequence(m) == [m EXCEPT !.buffered = <<>>]

\* what checkpoint() does to the manager once the marker is written
Rotate(m) == [m EXCEPT !.buffered = <<>>, !.sequence = m.sequence + 1]

\* checkpoint, had it returned early on an empty buffer
checkpoint_skip_empty(m, d, ts, w) ==
    IF m.buffered = <<>> THEN Outcome(m, d, TRUE)
    ELSE LET r == append(m, d, CheckpointEntry(ts), w)
         IN  IF r.ok THEN Outcome(Rotate(r.m), r.dir, TRUE) ELSE r

\* WALManager::checkpoint
checkpoint(m, d, ts, w) ==
    LET r == append(m, d, CheckpointEntry(ts), w)
    IN  IF r.ok THEN Outcome(Rotate(r.m), r.dir, TRUE) ELSE r

\* the test of check_and_mark, had it been >=
OverThresholdInclusive(m) == BufferedSize(m.buffered) >= m.page_size

\* the test of check_and_mark
OverThreshold(m) == BufferedSize(m.buffered) > m.page_size

\* WALManager::check_and_mark
check_and_mark(m, d, ts, w) ==
    IF OverThreshold(m) THEN checkpoint(m, d, ts, w) ELSE Outcome(m, d, TRUE)

\* append_log, had it ignored the result of check_and_mark
append_log_swallow(m, d, entry, ts, w1, w2) ==
    LET c == check_and_mark(m, d, ts, w1)
    IN  append(c.m, c.dir, entry, w2)

\* WALManager::append_log
append_log(m, d, entry, ts, w1, w2) ==
    LET c == check_and_mark(m, d, ts, w1)
    IN  IF c.ok THEN append(c.m, c.dir, entry, w2) ELSE c

(* ---------- WALBuilder (core.rs 99-162) ---------- *)

IoOutcomes == {"ok", "list_err", "read_err"}

IsCheckpoint(e) == e.entry_type = "Checkpoint"

\* the recovered sequence, had a sealed last segment not advanced it
RecoveredSequenceNoAdvance(count, saved_entries) == count

\* the sequence load_data derives from the number of files and the entries of the last one
RecoveredSequence(count, saved_entries) ==
    IF saved_entries # <<>> /\ IsCheckpoint(saved_entries[Len(saved_entries)])
    THEN count + 1 ELSE count

\* the entries load_data returns for the last file
RecoveredEntries(saved_entries) ==
    IF saved_entries # <<>> /\ ~IsCheckpoint(saved_entries[Len(saved_entries)])
    THEN saved_entries ELSE <<>>

LoadFailed == [ok |-> FALSE, sequence |-> 0, entries |-> <<>>]

\* load_data, had log_sequence started at 0
load_data_from_zero(d, last_log, io) ==
    LET log_files == LogFiles(d)
    IN  IF io = "list_err" THEN LoadFailed
        ELSE IF log_files = {} THEN [ok |-> TRUE, sequence |-> 0, entries |-> <<>>]
        ELSE IF io = "read_err" THEN LoadFailed
        ELSE LET saved == ReadSegment(d, last_log)
             IN  IF ~saved.ok THEN LoadFailed
                 ELSE [ok |-> TRUE,
                       sequence |-> RecoveredSequence(Cardinality(log_files), saved.entries),
                       entries |-> RecoveredEntries(saved.entries)]

\* load_data, had it skipped a last file that does not decode
load_data_skip_bad(d, last_log, io) ==
    LET log_files == LogFiles(d)
    IN  IF io = "list_err" THEN LoadFailed
        ELSE IF log_files = {} THEN [ok |-> TRUE, sequence |-> 1, entries |-> <<>>]
        ELSE IF io = "read_err" THEN LoadFailed
        ELSE LET saved == ReadSegment(d, last_log)
             IN  [ok |-> TRUE,
                  sequence |-> RecoveredSequence(Cardinality(log_files), saved.entries),
                  entries |-> RecoveredEntries(saved.entries)]

\* WALBuilder::load_data; last_log is the file the directory listing ends with
load_data(d, last_log, io) ==
    LET log_files == LogFiles(d)
    IN  IF io = "list_err" THEN LoadFailed
        ELSE IF log_files = {} THEN [ok |-> TRUE, sequence |-> 1, entries |-> <<>>]
        ELSE IF io = "read_err" THEN LoadFailed
        ELSE LET saved == ReadSegment(d, last_log)
             IN  IF ~saved.ok THEN LoadFailed
                 ELSE [ok |-> TRUE,
                       sequence |-> RecoveredSequence(Cardinality(log_files), saved.entries),
                       entries |-> RecoveredEntries(saved.entries)]

\* the buffer of the built manager, had build() kept what load_data recovered
BuiltBufferRecovered(recovered) == recovered

\* the buffer build() gives the manager
BuiltBuffer(recovered) == <<>>

NoManager == WALManager(0, 0, <<>>)

\* WALBuilder::build
build(d, last_log, io, ps) ==
    LET l == load_data(d, last_log, io)
    IN  IF l.ok THEN Outcome(WALManager(l.sequence, ps, BuiltBuffer(l.entries)), d, TRUE)
        ELSE Outcome(NoManager, d, FALSE)

(* ---------- the state machine ---------- *)

VARIABLES
    directory,   \* segment number -> bytes of wal<n>.log, or NoFile
    alive,       \* a manager has been built and not dropped
    manager,     \* the WALManager: sequence, page_size, buffered
    last,        \* the last call and its result
    started,     \* the sequence the living manager was built with
    rotations,   \* the checkpoints that succeeded in the living manager's lifetime
    faults       \* the writes that have failed so far

vars == <<directory, alive, manager, last, started, rotations, faults>>

NoEntry == WALEntry("Insert", NoData, 0, 0)

\* a call and what it returned: the entry given to append_log, whether a checkpoint
\* succeeded inside the call, the I/O failure it met, the file a build read as last
Call(op, ok, entry, rotated, io, last_log) ==
    [op |-> op, ok |-> ok, entry |-> entry, rotated |-> rotated, io |-> io, last_log |-> last_log]

Init ==
    /\ directory = [n \in Segments |-> NoFile]
    /\ alive = FALSE
    /\ manager = NoManager
    /\ last = Call("none", TRUE, NoEntry, FALSE, "ok", 0)
    /\ started = 0
    /\ rotations = 0
    /\ faults = 0

\* the files a directory listing can end with (0: there is none, or it is not read)
LastLogChoices(d, io) == IF LogFiles(d) = {} \/ io # "ok" THEN {0} ELSE LogFiles(d)

\* (re)start: the previous manager, if any, is dropped and build() runs over the directory
Build(last_log, io, ps) ==
    LET r == build(directory, last_log, io, ps)
    IN  /\ alive' = r.ok
        /\ manager' = r.m
        /\ directory' = r.dir
        /\ last' = Call("build", r.ok, NoEntry, FALSE, io, last_log)
        /\ started' = r.m.sequence
        /\ rotations' = 0
        /\ UNCHANGED faults

\* the writes a call makes that fail: at most one, the call returns at the first
Failed(r) == IF r.ok THEN 0 ELSE 1

\* the writes an append_log call performs, in order: the marker's when the threshold
\* is crossed, the entry's unless the marker's failed
Performed(m, w1, w2) ==
    IF OverThreshold(m) THEN (IF w1 = "ok" THEN <<w1, w2>> ELSE <<w1>>) ELSE <<w2>>

\* whether one of the writes performed failed
WriteIo(ws) == IF \E i \in DOMAIN ws : ws[i] # "ok" THEN "write_err" ELSE "ok"

\* the room the model leaves for a call that writes the file of the manager's sequence
InBounds(m) == m.sequence <= MaxSeq

AppendLog(entry, ts, w1, w2) ==
    /\ alive
    /\ InBounds(manager)
    /\ OverThreshold(manager) => manager.sequence + 1 <= MaxSeq
    /\ LET r == append_log(manager, directory, entry, ts, w1, w2)
           marked == OverThreshold(manager) /\ w1 = "ok"
       IN  /\ manager' = r.m
           /\ directory' = r.dir
           /\ last' = Call("append_log", r.ok, entry, marked,
                            WriteIo(Performed(manager, w1, w2)), 0)
           /\ rotations' = rotations + (IF marked THEN 1 ELSE 0)
           /\ faults' = faults + Failed(r)
           /\ faults' <= MaxFaults
    /\ UNCHANGED <<alive, started>>

Checkpoint(ts, w) ==
    /\ alive
    /\ InBounds(manager)
    /\ LET r == checkpoint(manager, directory, ts, w)
       IN  /\ manager' = r.m
           /\ directory' = r.dir
           /\ last' = Call("checkpoint", r.ok, NoEntry, r.ok, WriteIo(<<w>>), 0)
           /\ rotations' = rotations + (IF r.ok THEN 1 ELSE 0)
           /\ faults' = faults + Failed(r)
           /\ faults' <= MaxFaults
    /\ UNCHANGED <<alive, started>>

\* the outcomes of the writes an append_log call makes: the marker's only when the
\* threshold is crossed, the entry's only when the marker's (if any) succeeded
MarkerWrites(m) == IF OverThreshold(m) THEN WriteOutcomes ELSE {"ok"}
EntryWrites(w1) == IF w1 = "ok" THEN WriteOutcomes ELSE {"ok"}

Next ==
    \/ \E io \in IoOutcomes, ps \in PageSizes :
          \E f \in LastLogChoices(directory, io) : Build(f, io, ps)
    \/ \E e \in InputEntries, ts \in Times :
          \E w1 \in MarkerWrites(manager) : \E w2 \in EntryWrites(w1) : AppendLog(e, ts, w1, w2)
    \/ \E ts \in Times, w \in WriteOutcomes : Checkpoint(ts, w)

Spec == Init /\ [][Next]_vars

\* the runs in which no listing, read or write fails
NextReliable ==
    \/ \E ps \in PageSizes : \E f \in LastLogChoices(directory, "ok") : Build(f, "ok", ps)
    \/ \E e \in InputEntries, ts \in Times : AppendLog(e, ts, "ok", "ok")
    \/ \E ts \in Times : Checkpoint(ts, "ok")

SpecReliable == Init /\ [][NextReliable]_vars

\* the directory holds only what managers that started on an empty directory wrote:
\* no manager built over existing segment files has run on it
FirstGeneration == ~(last.op = "build" /\ LogFiles(directory) # {})

\* failure-free runs of a manager that started fresh, ended by one restart
NextRestartOnce == FirstGeneration /\ NextReliable

SpecRestartOnce == Init /\ [][NextRestartOnce]_vars

\* entries with and without a payload
AnyEntries == InputEntries \cup { WALEntry("TransactionCommit", NoData, 0, 1) }

\* an append_log call in which no write fails
AppendLogReliable == \E e \in AnyEntries, ts \in Times : AppendLog(e, ts, "ok", "ok")

\* failure-free runs of one manager: it is built once and never restarted
NextOneManager ==
    \/ ~alive /\ \E ps \in PageSizes : Build(0, "ok", ps)
    \/ AppendLogReliable
    \/ \E ts \in Times : Checkpoint(ts, "ok")

\* ... in which append_log is called again and again
SpecAppending == Init /\ [][NextOneManager]_vars /\ WF_vars(AppendLogReliable)

(* ---------- properties ---------- *)

Decoded(buf) == [ok |-> TRUE, entries |-> buf]

IsPrefix(s, t) == Len(s) <= Len(t) /\ SubSeq(t, 1, Len(s)) = s

\* the file of segment n, absent also when n lies beyond the files of the model
FileAbsent(d, n) == n \notin DOMAIN d \/ d[n] = NoFile

\* a synthesized Checkpoint entry: no payload, transaction_id 0
IsMarker(e) == IsCheckpoint(e) /\ ~e.data.some /\ e.transaction_id = 0

\* segment n decodes and ends with the Checkpoint marker
IsSealed(d, n) ==
    LET r == ReadSegment(d, n)
    IN  r.ok /\ r.entries # <<>> /\ IsMarker(r.entries[Len(r.entries)])

Succeeded(op) == alive /\ last.op = op /\ last.ok

\* C1 as stated: after a successful append_log and after a successful checkpoint,
\* decoding the active segment file wal<sequence>.log yields exactly the buffer.
C1_SegmentEqualsBuffer ==
    (Succeeded("append_log") \/ Succeeded("checkpoint"))
        => ReadSegment(directory, manager.sequence) = Decoded(manager.buffered)

\* C1 amended: after a successful append_log, decoding the active segment file yields
\* exactly the buffer; after a successful checkpoint the buffer is empty and the new
\* active file wal<sequence>.log has not been written: it does not exist.
C1_SegmentEqualsBufferAfterAppend ==
    /\ Succeeded("append_log")
          => ReadSegment(directory, manager.sequence) = Decoded(manager.buffered)
    /\ Succeeded("checkpoint")
          => manager.buffered = <<>> /\ FileAbsent(directory, manager.sequence)

C1_Witness ==
    /\ Succeeded("append_log")
    /\ Len(manager.buffered) >= 2
    /\ ReadSegment(directory, manager.sequence) = Decoded(manager.buffered)

\* C2: a checkpoint() that fails because the marker could not be written leaves the
\* buffer and the sequence exactly as they were before the call.
C2_FailedCheckpointKeepsState ==
    [][(last'.op = "checkpoint" /\ ~last'.ok) => manager' = manager]_vars

\* C3: in one manager's lifetime the sequence is >= 1, never decreases, equals the
\* initial sequence plus the number of successful checkpoints (explicit or inside
\* append_log), and an append_log that does not rotate leaves it unchanged.
C3_MonotonicSequencing ==
    /\ [](alive => /\ manager.sequence >= 1
                   /\ manager.sequence = started + rotations)
    /\ [][(alive /\ last'.op \in {"append_log", "checkpoint"})
             => /\ manager'.sequence >= manager.sequence
                /\ (last'.op = "append_log" /\ ~last'.rotated)
                      => manager'.sequence = manager.sequence]_vars

C3_Witness ==
    alive /\ started >= 2 /\ rotations >= 1 /\ last.op = "append_log" /\ last.rotated

\* C4: append_log(e) performs a checkpoint iff the summed size of the buffer before
\* e is added strictly exceeds the threshold; then exactly one checkpoint happens
\* before e is buffered, the sequence rises by 1, and the buffer is exactly [e],
\* written alone to the new segment file.
C4_ThresholdTrigger ==
    [][(last'.op = "append_log") =>
          LET over == BufferedSize(manager.buffered) > manager.page_size
              tried == \E ts \in Times :
                          manager'.buffered = Append(manager.buffered, CheckpointEntry(ts))
          IN  /\ last'.rotated => over
              /\ over => (last'.rotated \/ (~last'.ok /\ tried))
              /\ rotations' = rotations + (IF last'.rotated THEN 1 ELSE 0)
              /\ manager'.sequence = manager.sequence + (IF last'.rotated THEN 1 ELSE 0)
              /\ last'.rotated => manager'.buffered = <<last'.entry>>
              /\ (last'.rotated /\ last'.ok)
                    => ReadSegment(directory', manager'.sequence) = Decoded(<<last'.entry>>)
              /\ (~over /\ last'.ok) => manager'.buffered = Append(manager.buffered, last'.entry)
      ]_vars

C4_Witness ==
    /\ Succeeded("append_log") /\ last.rotated
    /\ manager.buffered = <<last.entry>>
    /\ IsSealed(directory, manager.sequence - 1)

\* C5: after a successful checkpoint that moved the sequence from n to n+1, wal<n>.log
\* decodes to the pre-checkpoint buffer followed by one synthesized Checkpoint entry,
\* and this stays true in every later state.
C5_MarkerTerminal ==
    [][/\ (last'.op = "checkpoint" /\ last'.ok)
            => /\ manager'.sequence = manager.sequence + 1
               /\ \E ts \in Times : ReadSegment(directory', manager.sequence)
                                      = Decoded(Append(manager.buffered, CheckpointEntry(ts)))
       /\ \A n \in Segments :
            IsSealed(directory, n) => ReadSegment(directory', n) = ReadSegment(directory, n)
      ]_vars

\* C6: no append_log or checkpoint, in any run that may rebuild the manager over the
\* same directory, modifies a file wal<k>.log already sealed by a Checkpoint marker,
\* and no file numbered below the current sequence is written.
C6_SealedNeverWritten ==
    [][(last'.op \in {"append_log", "checkpoint"}) =>
          \A k \in Segments :
              (IsSealed(directory, k) \/ k < manager.sequence) => directory'[k] = directory[k]
      ]_vars

\* C7: wal<N>.log always holds the complete ordered sequence of entries successfully
\* written to segment N: what a file decodes to stays a prefix of what it decodes to
\* after every later successful operation, a rebuild and a new append included.
C7_SegmentKeepsEntries ==
    [][last'.ok =>
          \A n \in Segments :
              LET before == ReadSegment(directory, n)
                  after  == ReadSegment(directory', n)
              IN  before.ok => (after.ok /\ IsPrefix(before.entries, after.entries))
      ]_vars

\* C8: building over a directory with no segment files succeeds, yields sequence 1
\* and an empty buffer, and creates or modifies no file.
C8_FreshDirectory ==
    [][(last'.op = "build" /\ LogFiles(directory) = {} /\ last'.io # "list_err")
          => /\ last'.ok /\ alive'
             /\ manager'.sequence = 1
             /\ manager'.buffered = <<>>
             /\ directory' = directory
      ]_vars

C8_Witness ==
    Succeeded("build") /\ LogFiles(directory) = {} /\ manager.sequence = 1

\* C9: building over a directory with k >= 1 segment files yields sequence k + 1 when
\* the last entry of the segment read as most recent is a Checkpoint, and k when it is
\* of any other kind.
C9_RecoveredSequence ==
    [][(last'.op = "build" /\ last'.ok /\ LogFiles(directory) # {}) =>
          LET k     == Cardinality(LogFiles(directory))
              saved == ReadSegment(directory, last'.last_log)
          IN  /\ k >= 1
              /\ saved.ok /\ saved.entries # <<>>
              /\ IsCheckpoint(saved.entries[Len(saved.entries)])
                    => manager'.sequence = k + 1 /\ FileAbsent(directory, k + 1)
              /\ ~IsCheckpoint(saved.entries[Len(saved.entries)]) => manager'.sequence = k
      ]_vars

C9_Witness ==
    /\ Succeeded("build") /\ Cardinality(LogFiles(directory)) = 2
    /\ IsSealed(directory, last.last_log)
    /\ manager.sequence = 3

\* C10: a manager returned by build() starts with an empty buffer, whatever entries
\* the recovery scan decoded.
C10_BuiltBufferEmpty ==
    Succeeded("build") => manager.buffered = <<>>

C10_Witness ==
    /\ Succeeded("build")
    /\ RecoveredEntries(ReadSegment(directory, last.last_log).entries) # <<>>
    /\ manager.buffered = <<>>

\* C11: checkpoint() on an empty buffer still succeeds (its write not failing),
\* writes wal<sequence>.log holding exactly one entry, of kind Checkpoint, leaves
\* the buffer empty and advances the sequence by exactly 1.
C11_CheckpointOnEmptyBuffer ==
    [][(last'.op = "checkpoint" /\ manager.buffered = <<>> /\ last'.io = "ok") =>
          LET written == ReadSegment(directory', manager.sequence)
          IN  /\ last'.ok
              /\ written.ok /\ Len(written.entries) = 1 /\ IsCheckpoint(written.entries[1])
              /\ manager'.buffered = <<>>
              /\ manager'.sequence = manager.sequence + 1
      ]_vars

C11_Witness ==
    /\ Succeeded("checkpoint")
    /\ \E ts \in Times :
          ReadSegment(directory, manager.sequence - 1) = Decoded(<<CheckpointEntry(ts)>>)
    /\ manager.buffered = <<>>

\* C12: append_log returns failure exactly when a segment write it performs fails (the
\* marker's or the entry's); when no write fails every append_log succeeds, those
\* that cross the threshold and rotate included.
C12_FailureIffWriteFails ==
    (last.op = "append_log") => (last.ok <=> last.io = "ok")

C12_Witness ==
    Succeeded("append_log") /\ last.rotated /\ last.io = "ok" /\ rotations >= 2

\* the files of the directory that do not decode
BadSegments(d) == {n \in LogFiles(d) : ~ReadSegment(d, n).ok}

\* C13 as stated: if any segment file of the directory fails to decode, build()
\* fails and constructs no manager.
C13_AnyBadSegmentFailsBuild ==
    (last.op = "build" /\ BadSegments(directory) # {}) => (~last.ok /\ ~alive)

\* C13 amended: build() fails and constructs no manager if the one segment file it
\* reads, the file the listing ends with, fails to decode; the other files are not
\* decoded, and when the listing and the read succeed the build succeeds exactly
\* when that file decodes.
C13_BadLastSegmentFailsBuild ==
    (last.op = "build" /\ last.io = "ok" /\ LogFiles(directory) # {}) =>
        /\ last.ok <=> ReadSegment(directory, last.last_log).ok
        /\ ~last.ok => (~alive /\ manager = NoManager)

C13_Witness ==
    /\ last.op = "build" /\ last.io = "ok" /\ ~last.ok /\ ~alive
    /\ last.last_log \in BadSegments(directory)
    /\ BadSegments(directory) # LogFiles(directory)

\* C14: in every reachable state the summed size of all buffered entries except the
\* most recently added one is <= the threshold.
C14_OvershootAtMostOneEntry ==
    (alive /\ manager.buffered # <<>>) =>
        BufferedSize(SubSeq(manager.buffered, 1, Len(manager.buffered) - 1)) <= manager.page_size

\* C15: the buffer is emptied only by a checkpoint: an append_log that does not cross
\* the threshold keeps the buffered entries in place and in order and adds the new
\* entry at the end, and the buffer only grows until the step that clears it and
\* increments the sequence.
C15_BufferOnlyGrows ==
    [][(alive /\ last'.op \in {"append_log", "checkpoint"}) =>
          /\ (last'.op = "append_log" /\ BufferedSize(manager.buffered) <= manager.page_size)
                => manager'.buffered = Append(manager.buffered, last'.entry)
          /\ ~last'.rotated
                => (IsPrefix(manager.buffered, manager'.buffered)
                      /\ Len(manager'.buffered) = Len(manager.buffered) + 1)
          /\ ~IsPrefix(manager.buffered, manager'.buffered)
                => (last'.rotated /\ manager'.sequence = manager.sequence + 1)
          /\ (last'.op = "checkpoint" /\ last'.ok) => manager'.buffered = <<>>
      ]_vars

C15_Witness ==
    /\ Succeeded("append_log") /\ ~last.rotated
    /\ Len(manager.buffered) >= 2
    /\ manager.buffered[Len(manager.buffered)] = last.entry

\* C16: if append_log(e) fails, the buffer and the sequence are what they were
\* before the call.
C16_FailedAppendKeepsState ==
    [][(last'.op = "append_log" /\ ~last'.ok) => manager' = manager]_vars

\* C17: for a directory populated only by a manager that started fresh, after any
\* failure-free sequence of append_log and checkpoint calls, a manager rebuilt over
\* the directory gets the sequence the previous manager had when it stopped.
C17_RestartPreservesSequence ==
    [][(alive /\ last'.op = "build" /\ last'.ok) => manager'.sequence = manager.sequence]_vars

\* C18: in a run where append_log is called again and again and no write fails, the
\* sequence eventually increases from any state.
C18_RotationEventually ==
    \A n \in 1..(MaxSeq - 1) :
        (alive /\ manager.sequence = n) ~> (alive /\ manager.sequence > n)

C18_Witness ==
    /\ alive /\ last.op = "append_log" /\ last.rotated
    /\ rotations >= 2
    /\ ~last.entry.data.some

====
